---- MODULE Spec2Model ----
(***************************************************************************)
(* The predicate compiler of apollo-mongoose-datasource:                   *)
(* toMongooseFilterExpression translates a GraphQL filter expression into  *)
(* a Mongoose/MongoDB filter document.                                     *)
(*                                                                         *)
(* Three specifications: Spec is one call of the compiler and the         *)
(* receiver of its result; SpecFacade is a data source answering one       *)
(* list or listAggregation call; SpecElements is one call of               *)
(* removeEmptyObjectElements.                                              *)
(*                                                                         *)
(* JavaScript values are tagged records.  Arrays and objects carry a       *)
(* reference `ref`, the identity of the object: two nodes with the same    *)
(* non-fresh ref are one and the same JavaScript object.  Objects keep     *)
(* their entries in property enumeration order.  Strings are sequences of  *)
(* one-character strings; numbers are decimal with one fractional digit    *)
(* (int + frac/10), or NaN.                                                *)
(***************************************************************************)
EXTENDS Integers, Sequences, FiniteSets, TLC

VARIABLES filter, given, result, fieldTypes, pc, mutations, touched,
          thisOptions, request, storeCalls, reply,
          document, cleaned

\* the compiler call and the receiver of its result
compilerVars == <<filter, given, result, fieldTypes, pc, mutations, touched>>
\* the data source facade: its options, the call made on it, the calls it
\* made on the model of the store, and what it returned
facadeVars == <<thisOptions, request, storeCalls, reply>>
\* removeEmptyObjectElements: its argument and what it returned
elementVars == <<document, cleaned>>

vars == <<compilerVars, facadeVars, elementVars>>

----------------------------------------------------------------------------
(* JavaScript values *)

\* the ref of every object the compiler allocates: distinct from every ref of
\* the caller's input, which are the non-empty paths of the input tree
Fresh == <<>>

Str(chars) == [kind |-> "string", chars |-> chars]
Num(i, f) == [kind |-> "number", nan |-> FALSE, int |-> i, frac |-> f]
NaN == [kind |-> "number", nan |-> TRUE, int |-> 0, frac |-> 0]
Bool(b) == [kind |-> "boolean", b |-> b]
Null == [kind |-> "null"]
Undefined == [kind |-> "undefined"]
Arr(ref, items) == [kind |-> "array", ref |-> ref, items |-> items]
Obj(ref, ents) == [kind |-> "object", ref |-> ref, ents |-> ents]
Ent(k, v) == [key |-> k, val |-> v]

\* the outcome of a call that raised a TypeError instead of returning
Throw == [kind |-> "throw"]

IsCompound(v) == v.kind \in {"array", "object"}
IsNullish(v) == v.kind \in {"null", "undefined"}

\* kind-of: the kind of a value
kindOf(v) == v.kind

\* strict equality of a value with a string literal: v === 'chars'
StrictEqStr(v, chars) == v.kind = "string" /\ v.chars = chars

\* the property key of array index i (0-based): '0', '1', ...
IndexKey(i) == ToString(i)

\* the children of a string, array or object by position
Size(v) ==
  CASE v.kind = "object" -> Len(v.ents)
    [] v.kind = "array" -> Len(v.items)
    [] v.kind = "string" -> Len(v.chars)
    [] OTHER -> 0

KeyAt(v, i) == IF v.kind = "object" THEN v.ents[i].key ELSE IndexKey(i - 1)

ValAt(v, i) ==
  CASE v.kind = "object" -> v.ents[i].val
    [] v.kind = "array" -> v.items[i]
    [] v.kind = "string" -> Str(<<v.chars[i]>>)

\* Object.keys(v) for v not null or undefined (those raise a TypeError):
\* own enumerable property names in enumeration order; none for a number or
\* a boolean
ObjectKeys(v) == [i \in 1..Size(v) |-> KeyAt(v, i)]

\* the last key instead of the first
FirstKey_Last(keys) == IF Len(keys) = 0 THEN "undefined" ELSE keys[Len(keys)]

\* keys[0], used as a property key: undefined is coerced to 'undefined'
FirstKey(keys) == IF Len(keys) = 0 THEN "undefined" ELSE keys[1]

HasProp(v, k) == \E i \in 1..Size(v) : KeyAt(v, i) = k

\* v[k] for v not null or undefined: undefined when there is no such property
GetProp(v, k) ==
  IF HasProp(v, k) THEN ValAt(v, CHOOSE i \in 1..Size(v) : KeyAt(v, i) = k)
  ELSE Undefined

IsIndexKey(k) == \E i \in 0..9 : IndexKey(i) = k
IndexOfKey(k) == CHOOSE i \in 0..9 : IndexKey(i) = k

\* where a new property k goes in the enumeration order of an object:
\* integer keys ascending first, then the others in insertion order
InsertPos(ents, k) ==
  IF IsIndexKey(k)
  THEN 1 + Cardinality({i \in 1..Len(ents) :
                          IsIndexKey(ents[i].key) /\ IndexOfKey(ents[i].key) < IndexOfKey(k)})
  ELSE Len(ents) + 1

\* o[k] = v on an object o
SetProp(o, k, v) ==
  IF \E i \in 1..Len(o.ents) : o.ents[i].key = k
  THEN [o EXCEPT !.ents = [i \in 1..Len(o.ents) |->
                             IF o.ents[i].key = k THEN Ent(k, v) ELSE o.ents[i]]]
  ELSE LET p == InsertPos(o.ents, k)
       IN [o EXCEPT !.ents = SubSeq(o.ents, 1, p - 1) \o <<Ent(k, v)>>
                               \o SubSeq(o.ents, p, Len(o.ents))]

RECURSIVE AssignFrom(_, _, _)
AssignFrom(target, source, i) ==
  IF i > Size(source) THEN target
  ELSE AssignFrom(SetProp(target, KeyAt(source, i), ValAt(source, i)), source, i + 1)

\* Object.assign(target, source): every own enumerable property of source is
\* set on target, and target is returned (a null or undefined source is skipped)
ObjectAssign(target, source) == AssignFrom(target, source, 1)

----------------------------------------------------------------------------
(* String conversion, parseInt and the remainder test *)

Chars_number == <<"n", "u", "m", "b", "e", "r">>
Chars_i == <<"i">>

DecChars == <<"0", "1", "2", "3", "4", "5", "6", "7", "8", "9">>
HexLower == <<"a", "b", "c", "d", "e", "f">>
HexUpper == <<"A", "B", "C", "D", "E", "F">>

RECURSIVE NatToChars(_)
NatToChars(n) ==
  IF n < 10 THEN <<DecChars[n + 1]>>
  ELSE NatToChars(n \div 10) \o <<DecChars[(n % 10) + 1]>>

\* String(v) of a number
NumToChars(v) ==
  IF v.nan THEN <<"N", "a", "N">>
  ELSE (IF v.int < 0 THEN <<"-">> ELSE <<>>)
       \o NatToChars(IF v.int < 0 THEN -v.int ELSE v.int)
       \o (IF v.frac # 0 THEN <<".", DecChars[v.frac + 1]>> ELSE <<>>)

RECURSIVE ToStringJS(_), JoinFrom(_, _)
\* Array.prototype.join(','): null and undefined elements give ''
JoinFrom(items, i) ==
  IF i > Len(items) THEN <<>>
  ELSE (IF i > 1 THEN <<",">> ELSE <<>>)
       \o (IF IsNullish(items[i]) THEN <<>> ELSE ToStringJS(items[i]))
       \o JoinFrom(items, i + 1)

\* String(v): the characters of v converted to a string
ToStringJS(v) ==
  CASE v.kind = "string" -> v.chars
    [] v.kind = "number" -> NumToChars(v)
    [] v.kind = "boolean" -> IF v.b THEN <<"t", "r", "u", "e">> ELSE <<"f", "a", "l", "s", "e">>
    [] v.kind = "null" -> <<"n", "u", "l", "l">>
    [] v.kind = "undefined" -> <<"u", "n", "d", "e", "f", "i", "n", "e", "d">>
    [] v.kind = "array" -> JoinFrom(v.items, 1)
    [] v.kind = "object" ->
         <<"[", "o", "b", "j", "e", "c", "t", " ", "O", "b", "j", "e", "c", "t", "]">>

IsSpace(c) == c = " "

RECURSIVE TrimLeft(_)
TrimLeft(s) == IF s # <<>> /\ IsSpace(Head(s)) THEN TrimLeft(Tail(s)) ELSE s

RECURSIVE TrimRight(_)
TrimRight(s) ==
  IF s # <<>> /\ IsSpace(s[Len(s)]) THEN TrimRight(SubSeq(s, 1, Len(s) - 1)) ELSE s

\* the value of a digit character, 36 for a character that is no digit
DigitVal(c) ==
  IF \E i \in 1..10 : DecChars[i] = c THEN (CHOOSE i \in 1..10 : DecChars[i] = c) - 1
  ELSE IF \E i \in 1..6 : HexLower[i] = c THEN 9 + (CHOOSE i \in 1..6 : HexLower[i] = c)
  ELSE IF \E i \in 1..6 : HexUpper[i] = c THEN 9 + (CHOOSE i \in 1..6 : HexUpper[i] = c)
  ELSE 36

\* the number the longest prefix of s made of digits of the radix denotes
RECURSIVE DigitRun(_, _, _)
DigitRun(s, radix, acc) ==
  IF s = <<>> \/ DigitVal(Head(s)) >= radix THEN acc
  ELSE DigitRun(Tail(s), radix, acc * radix + DigitVal(Head(s)))

\* mutant: the operand is not coerced
parseInt_NoCoercion(v, radix) == v

\* parseInt(v, radix): v is converted to a string, leading white space and a
\* sign are skipped, radix 0 means 10 (16 after a 0x prefix), and the longest
\* prefix of digits is read; NaN when there is no digit
parseInt(v, radix) ==
  LET s0 == TrimLeft(ToStringJS(v))
      neg == s0 # <<>> /\ Head(s0) = "-"
      s1 == IF s0 # <<>> /\ Head(s0) \in {"+", "-"} THEN Tail(s0) ELSE s0
      hex == radix \in {0, 16} /\ Len(s1) >= 2 /\ s1[1] = "0" /\ s1[2] \in {"x", "X"}
      R == IF hex THEN 16 ELSE IF radix = 0 THEN 10 ELSE radix
      s2 == IF hex THEN SubSeq(s1, 3, Len(s1)) ELSE s1
  IN IF (radix # 0 /\ (radix < 2 \/ radix > 36)) \/ s2 = <<>> \/ DigitVal(Head(s2)) >= R
     THEN NaN
     ELSE Num(IF neg THEN -DigitRun(s2, R, 0) ELSE DigitRun(s2, R, 0), 0)

AllDec(s) == \A i \in 1..Len(s) : DigitVal(s[i]) < 10
AllHex(s) == \A i \in 1..Len(s) : DigitVal(s[i]) < 16

\* whether Number(s) is a whole number, for a string s: white space is
\* trimmed, '' is 0, then a signed decimal literal or an unsigned 0x literal
\* (exponents and Infinity are outside the strings of this model)
StrIsWhole(str) ==
  LET s == TrimRight(TrimLeft(str))
      body == IF s # <<>> /\ s[1] \in {"+", "-"} THEN Tail(s) ELSE s
      dot == IF \E i \in 1..Len(body) : body[i] = "."
             THEN CHOOSE i \in 1..Len(body) :
                    body[i] = "." /\ \A j \in 1..(i - 1) : body[j] # "."
             ELSE Len(body) + 1
      ip == SubSeq(body, 1, dot - 1)
      fp == SubSeq(body, dot + 1, Len(body))
  IN \/ s = <<>>
     \/ Len(s) > 2 /\ s[1] = "0" /\ s[2] \in {"x", "X"} /\ AllHex(SubSeq(s, 3, Len(s)))
     \/ /\ AllDec(ip) /\ AllDec(fp) /\ Len(ip) + Len(fp) > 0
        /\ \A i \in 1..Len(fp) : fp[i] = "0"

\* v % 1 === 0: v converted to a number is a whole number (undefined
\* converts to NaN, null to 0, a boolean to 0 or 1)
Rem1IsZero(v) ==
  CASE v.kind = "number" -> ~v.nan /\ v.frac = 0
    [] v.kind = "undefined" -> FALSE
    [] v.kind \in {"null", "boolean"} -> TRUE
    [] OTHER -> StrIsWhole(ToStringJS(v))

----------------------------------------------------------------------------
(* The type classifier and the operator table *)

getTypeof(fieldType, fieldValue) ==
  LET newType == kindOf(fieldType)
      newType1 == IF StrictEqStr(fieldType, Chars_number) /\ Rem1IsZero(fieldValue)
                  THEN "int" ELSE newType
  IN IF StrictEqStr(fieldType, Chars_number) /\ ~Rem1IsZero(fieldValue)
     THEN "float" ELSE newType1

\* { $regex: pattern, $options: 'i' }
RegexNode(pattern) ==
  Obj(Fresh, <<Ent("$regex", pattern), Ent("$options", Str(Chars_i))>>)

\* mutant: the type check is left out
convertContains_NoTypeCheck(fieldType, fieldValue) == RegexNode(fieldValue)

convertContains(fieldType, fieldValue) ==
  IF fieldType # "string" THEN fieldValue ELSE RegexNode(fieldValue)

convertNotContains(fieldType, fieldValue) ==
  IF fieldType # "string" THEN fieldValue
  ELSE Obj(Fresh, <<Ent("$not", RegexNode(fieldValue))>>)

convertStartsWith(fieldType, fieldValue) ==
  IF fieldType # "string" THEN fieldValue
  ELSE RegexNode(Str(<<"^">> \o ToStringJS(fieldValue)))

convertEndsWith(fieldType, fieldValue) ==
  IF fieldType # "string" THEN fieldValue
  ELSE RegexNode(Str(ToStringJS(fieldValue) \o <<"$">>))

\* mutant: the type check is inverted
convertIn_Inverted(fieldType, fieldValue) ==
  IF fieldType = "array" THEN fieldValue
  ELSE Obj(Fresh, <<Ent("$in", fieldValue)>>)

convertIn(fieldType, fieldValue) ==
  IF fieldType # "array" THEN fieldValue
  ELSE Obj(Fresh, <<Ent("$in", fieldValue)>>)

RECURSIVE toMongooseFilterExpression(_)
RECURSIVE convertSearchOperator(_, _, _)
RECURSIVE convertLogicalOperator(_, _, _)
RECURSIVE forEachStatement(_, _, _)
RECURSIVE forEachField(_, _, _)

\* mutant: the statements are pushed as they are, not compiled
forEachStatement_NoCompile(fieldValue, i, acc) ==
  [acc EXCEPT !.items = fieldValue.items]

\* fieldValue.forEach(statement => result[operator].push(compile(statement))):
\* the array acc after the statements from i on; a TypeError ends the loop
forEachStatement(fieldValue, i, acc) ==
  IF i > Len(fieldValue.items) THEN acc
  ELSE LET c == toMongooseFilterExpression(fieldValue.items[i])
       IN IF c = Throw THEN Throw
          ELSE forEachStatement(fieldValue, i + 1, [acc EXCEPT !.items = Append(@, c)])

\* mutant: the compiled statements are stored into the caller's array
convertLogicalOperator_InPlace(fieldType, fieldValue, fieldName) ==
  IF fieldType # "array" THEN fieldValue
  ELSE LET pushed == forEachStatement(fieldValue, 1, Arr(fieldValue.ref, <<>>))
       IN IF pushed = Throw THEN Throw
          ELSE Obj(Fresh, <<Ent("$" \o fieldName, pushed)>>)

convertLogicalOperator(fieldType, fieldValue, fieldName) ==
  IF fieldType # "array" THEN fieldValue
  ELSE LET operator == "$" \o fieldName
           pushed == forEachStatement(fieldValue, 1, Arr(Fresh, <<>>))
       IN IF pushed = Throw THEN Throw
          ELSE Obj(Fresh, <<Ent(operator, pushed)>>)

convertSearchOperator(fieldName, fieldType, fieldValue) ==
  CASE fieldName = "ne" -> Obj(Fresh, <<Ent("$ne", fieldValue)>>)
    [] fieldName = "eq" -> fieldValue
    [] fieldName = "le" -> Obj(Fresh, <<Ent("$lte", fieldValue)>>)
    [] fieldName = "lt" -> Obj(Fresh, <<Ent("$lt", fieldValue)>>)
    [] fieldName = "ge" -> Obj(Fresh, <<Ent("$gte", fieldValue)>>)
    [] fieldName = "gt" -> Obj(Fresh, <<Ent("$gt", fieldValue)>>)
    [] fieldName = "exists" -> Obj(Fresh, <<Ent("$exists", parseInt(fieldValue, 0))>>)
    [] fieldName = "contains" -> convertContains(fieldType, fieldValue)
    [] fieldName = "notContains" -> convertNotContains(fieldType, fieldValue)
    [] fieldName = "between" ->
         \* fieldValue[0] of null or undefined raises a TypeError
         IF IsNullish(fieldValue) THEN Throw
         ELSE Obj(Fresh, <<Ent("$gte", GetProp(fieldValue, IndexKey(0))),
                           Ent("$lte", GetProp(fieldValue, IndexKey(1)))>>)
    [] fieldName = "startsWith" -> convertStartsWith(fieldType, fieldValue)
    [] fieldName = "endsWith" -> convertEndsWith(fieldType, fieldValue)
    [] fieldName = "in" -> convertIn(fieldType, fieldValue)
    [] fieldName \in {"or", "and"} -> convertLogicalOperator(fieldType, fieldValue, fieldName)
    [] OTHER -> fieldValue

----------------------------------------------------------------------------
(* The compiler driver *)

\* filter[field][Object.keys(filter[field])[0]], for a field value v that is
\* not null or undefined
operandOf(v) == GetProp(v, FirstKey(ObjectKeys(v)))

\* the driver's classification of a field's operand: getTypeof called with
\* the operand as its only argument, so the second parameter is undefined
fieldTypeOf(v) == getTypeof(operandOf(v), Undefined)

\* the body of fields.forEach: transferedFilter after the field, or Throw
fieldCallback(f, field, transferedFilter) ==
  LET v == GetProp(f, field)
      isTypeOf == kindOf(v)
  IN \* Object.keys(null) and Object.keys(undefined) raise a TypeError
     IF IsNullish(v) THEN Throw
     ELSE LET fieldSearchType == FirstKey(ObjectKeys(v))
              fieldValue == operandOf(v)
              fieldType == fieldTypeOf(v)
          IN CASE isTypeOf = "object" ->
                    LET r == convertSearchOperator(fieldSearchType, fieldType, fieldValue)
                    IN IF r = Throw THEN Throw ELSE SetProp(transferedFilter, field, r)
               [] isTypeOf = "array" ->
                    LET r == convertSearchOperator(field, isTypeOf, v)
                    IN IF r = Throw THEN Throw ELSE ObjectAssign(transferedFilter, r)
               [] OTHER -> SetProp(transferedFilter, field, v)

forEachField(f, i, transferedFilter) ==
  IF i > Size(f) THEN transferedFilter
  ELSE LET t == fieldCallback(f, KeyAt(f, i), transferedFilter)
       IN IF t = Throw THEN Throw ELSE forEachField(f, i + 1, t)

\* toMongooseFilterExpression(filter = {}): the compiled filter, or Throw
toMongooseFilterExpression(arg) ==
  LET f == IF arg.kind = "undefined" THEN Obj(Fresh, <<>>) ELSE arg
  IN \* Object.keys(null) raises a TypeError
     IF IsNullish(f) THEN Throw
     ELSE forEachField(f, 1, Obj(Fresh, <<>>))

----------------------------------------------------------------------------
(* The callers' filters, within bounds *)

\* nesting depth of and/or combinators in a filter
MaxNest == 2
\* sub-filters in an and/or array
MaxBranches == 2
\* fields in a filter with several fields
MaxFields == 2
\* in-place modifications of the returned filter by its receiver
MaxMutations == 1

O(ents) == Obj(Fresh, ents)
A(items) == Arr(Fresh, items)

Strings ==
  { Str(<<"d", "u", "m", "p">>), Str(<<>>), Str(<<"1">>), Str(<<"0">>),
    Str(Chars_number), Str(<<"0", "x", "1", "F">>), Str(<<" ", "-", "7">>),
    Str(<<"1", "2", "p", "x">>) }

Numbers == { Num(2, 0), Num(2, 2), Num(0, 0) }

Arrays ==
  { A(<<>>), A(<<Str(<<"d", "u", "m", "p">>), Str(<<"1">>)>>),
    A(<<Num(18, 0), Num(65, 0)>>), A(<<Num(1, 0)>>),
    A(<<O(<<Ent("none", Num(1, 0))>>)>>) }

Objects == { O(<<>>), O(<<Ent("none", Str(<<"1">>))>>) }

Operands ==
  Strings \cup Numbers \cup {Bool(TRUE), Bool(FALSE), Null, Undefined}
    \cup Arrays \cup Objects

\* the operator table of convertSearchOperator
TableOperators ==
  { "ne", "eq", "le", "lt", "ge", "gt", "exists", "contains", "notContains",
    "between", "startsWith", "endsWith", "in", "or", "and" }

StringOperators == { "contains", "notContains", "startsWith", "endsWith" }

\* operator names a client may send that the table does not have
UnknownOperators == { "beginsWith", "regex" }

Operators == TableOperators \cup UnknownOperators

FieldNames == { "firstname", "age", "and", "or" }

\* operator clauses with one key, and some with several
Clauses == { O(<<Ent(op, v)>>) : op \in Operators, v \in Operands }

MultiClauses ==
  { O(<<Ent("gt", Num(2, 0)), Ent("lt", Num(2, 2))>>),
    O(<<Ent("eq", Str(<<"1">>)), Ent("contains", Str(<<"d", "u", "m", "p">>))>>),
    O(<<Ent("regex", Str(<<"1">>)), Ent("ne", Num(0, 0))>>) }

\* the elements of and/or arrays: sub-filters, and values that are no mapping
Statement1 == O(<<Ent("firstname", O(<<Ent("ne", Str(<<"d", "u", "m", "p">>))>>))>>)
Statement2 == O(<<Ent("age", O(<<Ent("eq", Num(2, 0))>>))>>)
Statement3 == O(<<Ent("age", O(<<Ent("in", A(<<Num(18, 0), Num(65, 0)>>))>>))>>)

BaseStatements ==
  { Statement1, Statement2, Statement3, O(<<>>), Num(2, 0), Null }

TailStatements == { Statement2, O(<<>>) }

RECURSIVE TailsOf(_)
TailsOf(n) ==
  IF n = 0 THEN {<<>>}
  ELSE TailsOf(n - 1)
         \cup { Append(t, g) : t \in { u \in TailsOf(n - 1) : Len(u) = n - 1 },
                               g \in TailStatements }

RECURSIVE Statements(_)
\* statements with at most d levels of and/or below them
Statements(d) ==
  IF d = 0 THEN BaseStatements
  ELSE BaseStatements
         \cup { O(<<Ent(op, A(<<g>> \o t))>>) :
                  op \in {"and", "or"}, g \in Statements(d - 1),
                  t \in {<<>>, <<Statement2>>} }

LogicalArrays ==
  { A(<<>>) } \cup { A(<<g>> \o t) : g \in Statements(MaxNest - 1),
                                      t \in TailsOf(MaxBranches - 1) }

FieldValues == Operands \cup Clauses \cup MultiClauses

\* the values of the fields of filters with several fields
SmallValues ==
  { Str(<<"d", "u", "m", "p">>), O(<<Ent("eq", Num(2, 0))>>),
    O(<<Ent("contains", Str(<<"d", "u", "m", "p">>))>>), O(<<Ent("regex", Num(2, 2))>>),
    A(<<O(<<Ent("or", A(<<Statement3>>))>>), Statement2>>), Null }

RECURSIVE FieldSeqs(_)
\* entry sequences of n fields with distinct names
FieldSeqs(n) ==
  IF n = 0 THEN {<<>>}
  ELSE { Append(es, Ent(k, v)) :
           es \in FieldSeqs(n - 1),
           k \in FieldNames, v \in SmallValues }

DistinctKeys(es) == \A i, j \in 1..Len(es) : es[i].key = es[j].key => i = j

ManyFieldFilters ==
  { O(es) : es \in UNION { { e \in FieldSeqs(n) : DistinctKeys(e) } : n \in 2..MaxFields } }

\* the arguments of a call: filters, no argument at all (undefined), null
Arguments ==
  { O(<<>>), Undefined, Null }
    \cup { O(<<Ent(k, v)>>) : k \in FieldNames, v \in FieldValues }
    \cup { O(<<Ent(k, v)>>) : k \in {"and", "or"}, v \in LogicalArrays }
    \cup ManyFieldFilters

RECURSIVE Label(_, _)
\* the argument as the caller holds it: every array and object of the tree is
\* an object of its own, identified by its path from the root
Label(v, p) ==
  CASE v.kind = "object" ->
         Obj(p, [i \in 1..Len(v.ents) |->
                   Ent(v.ents[i].key, Label(v.ents[i].val, Append(p, v.ents[i].key)))])
    [] v.kind = "array" ->
         Arr(p, [i \in 1..Len(v.items) |-> Label(v.items[i], Append(p, IndexKey(i - 1)))])
    [] OTHER -> v

Root == <<"filter">>

----------------------------------------------------------------------------
(* In-place modification of a value held by reference *)

RECURSIVE Paths(_)
\* the paths of the arrays and objects of a value
Paths(v) ==
  IF ~IsCompound(v) THEN {}
  ELSE {<<>>} \cup UNION { { <<KeyAt(v, i)>> \o q : q \in Paths(ValAt(v, i)) } :
                             i \in 1..Size(v) }

RECURSIVE NodeAt(_, _)
NodeAt(v, path) == IF path = <<>> THEN v ELSE NodeAt(GetProp(v, Head(path)), Tail(path))

\* the refs of the caller's objects that occur in a value
SharedRefs(v) == { NodeAt(v, q).ref : q \in Paths(v) } \ {Fresh}

\* the modification of one node: push onto an array, set a key of an object
Modified(n, x) ==
  IF n.kind = "array" THEN [n EXCEPT !.items = Append(@, x)] ELSE SetProp(n, "m", x)

RECURSIVE ModifyAt(_, _, _)
\* the value with the node at the path modified
ModifyAt(v, path, x) ==
  IF path = <<>> THEN Modified(v, x)
  ELSE CASE v.kind = "object" ->
              [v EXCEPT !.ents = [i \in 1..Len(v.ents) |->
                 IF v.ents[i].key = Head(path)
                 THEN Ent(v.ents[i].key, ModifyAt(v.ents[i].val, Tail(path), x))
                 ELSE v.ents[i]]]
         [] v.kind = "array" ->
              [v EXCEPT !.items = [i \in 1..Len(v.items) |->
                 IF IndexKey(i - 1) = Head(path)
                 THEN ModifyAt(v.items[i], Tail(path), x) ELSE v.items[i]]]

RECURSIVE ModifyRef(_, _, _)
\* the value as seen after the object with that ref was modified
ModifyRef(v, ref, x) ==
  IF ~IsCompound(v) THEN v
  ELSE LET w == CASE v.kind = "object" ->
                      [v EXCEPT !.ents = [i \in 1..Len(v.ents) |->
                         Ent(v.ents[i].key, ModifyRef(v.ents[i].val, ref, x))]]
                  [] v.kind = "array" ->
                      [v EXCEPT !.items = [i \in 1..Len(v.items) |->
                         ModifyRef(v.items[i], ref, x)]]
       IN IF v.ref = ref THEN Modified(w, x) ELSE w

----------------------------------------------------------------------------
(* The state machine: one call, then the receiver of the result *)

\* no data source has been constructed
FacadeIdle ==
  /\ thisOptions = Undefined
  /\ request = Undefined
  /\ storeCalls = <<>>
  /\ reply = Undefined

\* removeEmptyObjectElements is not called
ElementsIdle == document = Undefined /\ cleaned = Undefined

\* the types the driver computes for the fields of the argument, in order
\* ("none" where the field value is null or undefined and the driver throws)
DriverTypes(f) ==
  IF ~IsCompound(f) /\ f.kind # "string" THEN <<>>
  ELSE [i \in 1..Size(f) |->
          IF IsNullish(ValAt(f, i)) THEN "none" ELSE fieldTypeOf(ValAt(f, i))]

Init ==
  /\ \E a \in Arguments : filter = Label(a, Root)
  /\ given = filter
  /\ result = Undefined
  /\ fieldTypes = <<>>
  /\ pc = "call"
  /\ mutations = 0
  /\ touched = FALSE
  /\ FacadeIdle
  /\ ElementsIdle

\* result = toMongooseFilterExpression(filter)
Compile ==
  /\ pc = "call"
  /\ result' = toMongooseFilterExpression(filter)
  /\ fieldTypes' = DriverTypes(filter)
  /\ pc' = IF result' = Throw THEN "threw" ELSE "returned"
  /\ UNCHANGED <<filter, given, mutations, touched, facadeVars, elementVars>>

\* the receiver modifies the object at a path of the result in place; an
\* object of the caller's filter is modified wherever it is referenced
ModifyResult(path, x) ==
  LET n == NodeAt(result, path)
  IN /\ mutations' = mutations + 1
     /\ IF n.ref = Fresh
        THEN /\ result' = ModifyAt(result, path, x)
             /\ UNCHANGED <<filter, touched>>
        ELSE /\ result' = ModifyRef(result, n.ref, x)
             /\ filter' = ModifyRef(filter, n.ref, x)
             /\ touched' = TRUE
     /\ UNCHANGED <<given, fieldTypes, pc, facadeVars, elementVars>>

\* array.push(9) on an array of the result
PushResult ==
  /\ pc = "returned"
  /\ mutations < MaxMutations
  /\ \E path \in Paths(result) :
       /\ NodeAt(result, path).kind = "array"
       /\ ModifyResult(path, Num(9, 0))

\* object.m = 9 on an object of the result
SetResult ==
  /\ pc = "returned"
  /\ mutations < MaxMutations
  /\ \E path \in Paths(result) :
       /\ NodeAt(result, path).kind = "object"
       /\ ModifyResult(path, Num(9, 0))

Next == Compile \/ PushResult \/ SetResult

Spec == Init /\ [][Next]_vars

----------------------------------------------------------------------------
(* The data source facade: list and listAggregation *)

\* the highest page asked for
MaxPage == 3
\* the highest limit given in the options
MaxLimit == 2
\* the highest number of documents the store counts
MaxCount == 5

PAGINATION_DEFAULT_LIMIT == 20

\* the options given to the constructor
ConstructorOptions == { O(<<>>), O(<<Ent("limit", Num(2, 0))>>) }

\* this.options = { limit: PAGINATION_DEFAULT_LIMIT, ...options }
constructor(o) ==
  ObjectAssign(O(<<Ent("limit", Num(PAGINATION_DEFAULT_LIMIT, 0))>>), o)

\* the filters of the calls: absent, empty, two with one field, and one the
\* compiler raises a TypeError on
ListFilters ==
  { Undefined, O(<<>>), Statement1, Statement2, O(<<Ent("firstname", Null)>>) }

ListSorts == { Undefined, O(<<Ent("age", Num(1, 0))>>), Null }

\* the options of a call: a property that is not given is undefined
ListOptions ==
  [ page : {Undefined} \cup { Num(n, 0) : n \in 1..MaxPage },
    limit : {Undefined} \cup { Num(n, 0) : n \in 1..MaxLimit },
    sort : ListSorts,
    filter : ListFilters ]

\* the aggregation stages given to listAggregation
Aggregations ==
  { Undefined, A(<<O(<<Ent("$project", O(<<Ent("age", Num(1, 0))>>))>>)>>) }

\* what the store answers: a rejected promise, a count, the documents found
StoreError == [kind |-> "error"]
Documents == [kind |-> "documents"]
CountAnswers == { Num(n, 0) : n \in 0..MaxCount } \cup {StoreError}
QueryAnswers == {Documents, StoreError}

\* a parameter or destructured property with a default value
Default(v, d) == IF v.kind = "undefined" THEN d ELSE v

\* the truth value of a value in a condition
ToBoolean(v) ==
  CASE IsNullish(v) -> FALSE
    [] v.kind = "boolean" -> v.b
    [] v.kind = "number" -> ~v.nan /\ ~(v.int = 0 /\ v.frac = 0)
    [] v.kind = "string" -> Len(v.chars) > 0
    [] OTHER -> TRUE

\* v === {}: the literal is a newly created object, and an object is
\* strictly equal to itself only
StrictEqNewObject(v) == FALSE

\* the quotient rounded down instead of up
MathCeil_Floor(a, b) == a \div b

\* Math.ceil(a / b) for whole a >= 0 and b >= 1
MathCeil(a, b) == IF a % b = 0 THEN a \div b ELSE (a \div b) + 1

\* a call on the model of the store, with its arguments
Call(method, args) == [method |-> method, args |-> args]

\* the call that counts the documents
CountCall(datafilter) ==
  IF StrictEqNewObject(datafilter)
  THEN Call("estimatedDocumentCount", <<>>)
  ELSE Call("countDocuments", <<datafilter>>)

\* the object list and listAggregation return
PageInfo(totalCount, page, limit, node) ==
  [ kind |-> "page",
    totalCount |-> totalCount,
    currentPage |-> page,
    hasPrevPage |-> (page > 1),
    hasNextPage |-> (page < MathCeil(totalCount, limit)),
    totalPages |-> MathCeil(totalCount, limit),
    prevPage |-> IF page > 1 THEN page - 1 ELSE 0,
    nextPage |-> IF page < MathCeil(totalCount, limit) THEN page + 1 ELSE 0,
    node |-> node ]

\* what a call of the facade did: the calls on the model of the store, in
\* order, and what the facade returned (Throw: the promise is rejected)
Outcome(calls, returned) == [calls |-> calls, reply |-> returned]

\* list(options) from the compiled filter on, the store answering counted
\* and then found: nothing is asked of the store when the compiler threw,
\* and an error of the store is caught and returned
list(this, o, datafilter, counted, found) ==
  LET page == Default(o.page, Num(1, 0))
      limit == Default(o.limit, GetProp(this, "limit"))
      sort == Default(o.sort, O(<<>>))
      skip == (page.int - 1) * limit.int
      find == Call("find", <<datafilter, sort, Num(skip, 0), limit>>)
  IN IF datafilter = Throw THEN Outcome(<<>>, Throw)
     ELSE IF counted = StoreError
          THEN Outcome(<<CountCall(datafilter)>>, StoreError)
          ELSE IF found = StoreError
               THEN Outcome(<<CountCall(datafilter), find>>, StoreError)
               ELSE Outcome(<<CountCall(datafilter), find>>,
                            PageInfo(counted.int, page.int, limit.int, found))

\* listAggregation(options, aggregation) from the compiled filter on
listAggregation(this, o, datafilter, agg, counted, found) ==
  LET page == Default(o.page, Num(1, 0))
      limit == Default(o.limit, GetProp(this, "limit"))
      sort == Default(o.sort, O(<<>>))
      aggregation == Default(agg, A(<<>>))
      skip == (page.int - 1) * limit.int
      firstAggregationMatch ==
        IF StrictEqNewObject(datafilter) THEN <<>>
        ELSE <<O(<<Ent("$match", datafilter)>>)>>
      sortAggregation ==
        IF ToBoolean(sort) THEN <<O(<<Ent("$sort", sort)>>)>> ELSE <<>>
      aggregationConcat ==
        A(firstAggregationMatch \o aggregation.items \o sortAggregation
            \o <<O(<<Ent("$skip", Num(skip, 0))>>), O(<<Ent("$limit", limit)>>)>>)
      aggregate == Call("aggregate", <<aggregationConcat>>)
  IN IF datafilter = Throw THEN Outcome(<<>>, Throw)
     ELSE IF counted = StoreError
          THEN Outcome(<<CountCall(datafilter)>>, StoreError)
          ELSE IF found = StoreError
               THEN Outcome(<<CountCall(datafilter), aggregate>>, StoreError)
               ELSE Outcome(<<CountCall(datafilter), aggregate>>,
                            PageInfo(counted.int, page.int, limit.int, found))

\* the compiler and removeEmptyObjectElements are not observed
CompilerIdle ==
  /\ filter = Undefined
  /\ given = Undefined
  /\ result = Undefined
  /\ fieldTypes = <<>>
  /\ pc = "idle"
  /\ mutations = 0
  /\ touched = FALSE

\* a data source is constructed
InitFacade ==
  /\ \E o \in ConstructorOptions : thisOptions = constructor(o)
  /\ request = Undefined
  /\ storeCalls = <<>>
  /\ reply = Undefined
  /\ CompilerIdle
  /\ ElementsIdle

\* the facade returns: what it asked of the store and its reply are observed
Answered(out) == storeCalls' = out.calls /\ reply' = out.reply

\* one call of list; datafilter is toMongooseFilterExpression(filter)
List(o, datafilter) ==
  /\ request = Undefined
  /\ \E counted \in CountAnswers, found \in QueryAnswers :
       /\ request' = [method |-> "list", options |-> o, aggregation |-> Undefined]
       /\ Answered(list(thisOptions, o, datafilter, counted, found))
  /\ UNCHANGED <<thisOptions, compilerVars, elementVars>>

\* one call of listAggregation
ListAggregation(o, datafilter) ==
  /\ request = Undefined
  /\ \E aggregation \in Aggregations, counted \in CountAnswers, found \in QueryAnswers :
       /\ request' = [method |-> "listAggregation", options |-> o,
                      aggregation |-> aggregation]
       /\ Answered(listAggregation(thisOptions, o, datafilter, aggregation, counted, found))
  /\ UNCHANGED <<thisOptions, compilerVars, elementVars>>

\* a call with options o: both methods compile the filter of the options
\* first, filter = {} when none is given
FacadeCall(o, datafilter) == List(o, datafilter) \/ ListAggregation(o, datafilter)

NextFacade ==
  \E o \in ListOptions :
    FacadeCall(o, toMongooseFilterExpression(Default(o.filter, O(<<>>))))

SpecFacade == InitFacade /\ [][NextFacade]_vars

----------------------------------------------------------------------------
(* removeEmptyObjectElements *)

\* the highest number of keys of a document
MaxKeys == 2

Function == [kind |-> "function"]

\* typeof v
typeOf(v) ==
  CASE v.kind \in {"null", "array", "object"} -> "object"
    [] OTHER -> v.kind

\* a callback that keeps a key when its value is truthy
removeCallback_Falsy(doc, key, res) ==
  IF ToBoolean(GetProp(doc, key)) THEN SetProp(res, key, GetProp(doc, key)) ELSE res

\* the body of Object.keys(document).forEach: result after the key
removeCallback(doc, key, res) ==
  LET v == GetProp(doc, key)
      hasType == IF v.kind = "array" THEN "array" ELSE typeOf(v)
      r1 == IF hasType = "array" /\ Size(v) # 0 THEN SetProp(res, key, v) ELSE res
      r2 == IF hasType = "string" /\ Size(v) # 0 THEN SetProp(r1, key, v) ELSE r1
      r3 == IF hasType = "object" /\ v # Null /\ Len(ObjectKeys(v)) > 0
            THEN SetProp(r2, key, v) ELSE r2
      r4 == IF hasType \in {"boolean", "function", "number"}
            THEN SetProp(r3, key, v) ELSE r3
  IN r4

RECURSIVE forEachKey(_, _, _)
forEachKey(doc, i, res) ==
  IF i > Size(doc) THEN res
  ELSE forEachKey(doc, i + 1, removeCallback(doc, KeyAt(doc, i), res))

removeEmptyObjectElements(doc) == forEachKey(doc, 1, Obj(Fresh, <<>>))

\* the values of the keys of a document
ElementValues ==
  { Str(<<"m", "o", "i", "n">>), Str(<<>>), Undefined, Null,
    Bool(FALSE), Bool(TRUE), Num(123456, 0), Num(0, 0), NaN,
    O(<<>>), O(<<Ent("none", Str(<<"n", "o", "n", "e">>))>>),
    A(<<>>), A(<<Num(11, 0), Num(12, 0)>>), Function }

\* the name of the i-th key of a document
ElementKey(i) == "key" \o ToString(i)

DocumentsOf(n) ==
  { O([i \in 1..n |-> Ent(ElementKey(i), vs[i])]) : vs \in [1..n -> ElementValues] }

TestDocuments == UNION { DocumentsOf(n) : n \in 0..MaxKeys }

DocumentRoot == <<"document">>

InitElements ==
  /\ \E d \in TestDocuments : document = Label(d, DocumentRoot)
  /\ cleaned = Undefined
  /\ filter = Undefined
  /\ given = document
  /\ result = Undefined
  /\ fieldTypes = <<>>
  /\ pc = "idle"
  /\ mutations = 0
  /\ touched = FALSE
  /\ FacadeIdle

\* cleaned = removeEmptyObjectElements(document)
RemoveEmptyElements ==
  /\ cleaned = Undefined
  /\ cleaned' = removeEmptyObjectElements(document)
  /\ UNCHANGED <<document, compilerVars, facadeVars>>

NextElements == RemoveEmptyElements

SpecElements == InitElements /\ [][NextElements]_vars

----------------------------------------------------------------------------
(* Properties *)

\* the call has returned and the receiver has not modified the result yet
Returned == pc = "returned" /\ mutations = 0

\* the positions of the fields of a filter
Fields(f) == IF f.kind = "object" THEN 1..Len(f.ents) ELSE {}

\* the keys of a compiled filter
KeySet(v) == { KeyAt(v, i) : i \in 1..Size(v) }

\* an operator clause with exactly one key
IsClause(v) == v.kind = "object" /\ Len(v.ents) = 1
OpOf(v) == v.ents[1].key
ArgOf(v) == v.ents[1].val

\* a field that is a logical combinator: named and/or with an array value
IsLogical(e) == e.key \in {"and", "or"} /\ e.val.kind = "array"

(* C1 *)

C1_Case(v) == IsClause(v) /\ OpOf(v) \in StringOperators /\ ArgOf(v).kind = "string"

C1_Expected(op, s) ==
  LET regex(pattern) == Obj(Fresh, <<Ent("$regex", pattern), Ent("$options", Str(<<"i">>))>>)
  IN CASE op = "contains" -> regex(s)
       [] op = "notContains" -> Obj(Fresh, <<Ent("$not", regex(s))>>)
       [] op = "startsWith" -> regex(Str(<<"^">> \o s.chars))
       [] op = "endsWith" -> regex(Str(s.chars \o <<"$">>))

\* C1 (as claimed): for every string operand s and every field, the clause
\* {contains|notContains|startsWith|endsWith: s} compiles to the
\* case-insensitive $regex node on s, '^' + s or s + '$' ($not-wrapped for
\* notContains) under the field name.
C1_Original ==
  Returned =>
    \A i \in Fields(given) :
      LET e == given.ents[i]
      IN C1_Case(e.val) =>
           /\ HasProp(result, e.key)
           /\ GetProp(result, e.key) = C1_Expected(OpOf(e.val), ArgOf(e.val))

(* C2 *)

C2_Case(v) ==
  /\ IsClause(v)
  /\ \/ OpOf(v) \in {"eq", "ne", "lt", "le", "gt", "ge"}
     \/ OpOf(v) = "in" /\ ArgOf(v).kind = "array"
     \/ OpOf(v) = "between" /\ ArgOf(v).kind = "array" /\ Len(ArgOf(v).items) = 2

C2_Expected(op, x) ==
  CASE op = "eq" -> x
    [] op = "ne" -> Obj(Fresh, <<Ent("$ne", x)>>)
    [] op = "lt" -> Obj(Fresh, <<Ent("$lt", x)>>)
    [] op = "le" -> Obj(Fresh, <<Ent("$lte", x)>>)
    [] op = "gt" -> Obj(Fresh, <<Ent("$gt", x)>>)
    [] op = "ge" -> Obj(Fresh, <<Ent("$gte", x)>>)
    [] op = "in" -> Obj(Fresh, <<Ent("$in", x)>>)
    [] op = "between" -> Obj(Fresh, <<Ent("$gte", x.items[1]), Ent("$lte", x.items[2])>>)

\* C2: for every operand v and every field, {eq: v} compiles to v itself,
\* {ne|lt|le|gt|ge: v} to {$ne|$lt|$lte|$gt|$gte: v}, {in: xs} for an array xs
\* to {$in: xs} with xs unchanged, and {between: [a, b]} to {$gte: a, $lte: b},
\* under the field name; a filter of one such field always compiles.
C2_Theorem ==
  (pc # "call" /\ mutations = 0) =>
    \A i \in Fields(given) :
      LET e == given.ents[i]
      IN C2_Case(e.val) =>
           /\ Len(given.ents) = 1 => pc = "returned"
           /\ pc = "returned" =>
                /\ HasProp(result, e.key)
                /\ GetProp(result, e.key) = C2_Expected(OpOf(e.val), ArgOf(e.val))

\* a between clause on a two-element array and an in clause have compiled
C2_Witness ==
  /\ Returned
  /\ \E i \in Fields(given) :
       /\ C2_Case(given.ents[i].val)
       /\ OpOf(given.ents[i].val) \in {"between", "in"}
       /\ ArgOf(given.ents[i].val).kind = "array"
       /\ Len(ArgOf(given.ents[i].val).items) = 2

(* C3 *)

RECURSIVE SubFilters(_)
\* a filter and the sub-filters in its and/or arrays, at every depth
SubFilters(f) ==
  {f} \cup UNION { UNION { SubFilters(f.ents[i].val.items[j]) :
                             j \in { n \in 1..Len(f.ents[i].val.items) :
                                       f.ents[i].val.items[n].kind = "object" } } :
                     i \in { n \in Fields(f) : IsLogical(f.ents[n]) } }

\* the filter f without its field at position i
Without(f, i) ==
  [f EXCEPT !.ents = SubSeq(f.ents, 1, i - 1) \o SubSeq(f.ents, i + 1, Len(f.ents))]

\* what C3 says of a filter f and its compilation r
C3_Holds(f, r) ==
  \A i \in Fields(f) :
    LET e == f.ents[i]
        rest == toMongooseFilterExpression(Without(f, i))
    IN IsLogical(e) =>
         /\ HasProp(r, "$" \o e.key)
         /\ GetProp(r, "$" \o e.key) =
              Arr(Fresh, [j \in 1..Len(e.val.items) |->
                            toMongooseFilterExpression(e.val.items[j])])
         /\ ~HasProp(r, e.key)
         /\ rest # Throw
         /\ KeySet(r) = KeySet(rest) \cup {"$" \o e.key}
         /\ \A n \in 1..Size(rest) : GetProp(r, KeyAt(rest, n)) = ValAt(rest, n)

\* C3: a field named and/or with an array of sub-filters compiles to the one
\* key $and/$or holding the compilations of the sub-filters, in order and of
\* the same length, at every nesting depth; the output has no key and/or for
\* it, and the rest of the output is what the filter compiles to without
\* that field.
C3_Theorem ==
  Returned =>
    /\ C3_Holds(given, result)
    /\ \A g \in SubFilters(given) :
         toMongooseFilterExpression(g) # Throw => C3_Holds(g, toMongooseFilterExpression(g))

\* a combinator with two branches, one of them a nested combinator, has
\* compiled beside an ordinary field
C3_Witness ==
  /\ Returned
  /\ Size(given) = 2
  /\ \E i \in Fields(given) :
       /\ IsLogical(given.ents[i])
       /\ Len(given.ents[i].val.items) = 2
       /\ HasProp(result, "$" \o given.ents[i].key)
  /\ \E i \in Fields(given) : ~IsLogical(given.ents[i])
  /\ Cardinality(SubFilters(given)) > 3

(* C4 *)

C4_Case(v) ==
  IsClause(v) /\ OpOf(v) = "exists" /\ ArgOf(v) \in {Str(<<"1">>), Str(<<"0">>)}

\* C4: {exists: '1'} compiles to {$exists: 1} and {exists: '0'} to
\* {$exists: 0}, the integer the string denotes and not the string.
C4_Theorem ==
  Returned =>
    \A i \in Fields(given) :
      LET e == given.ents[i]
      IN C4_Case(e.val) =>
           GetProp(result, e.key) =
             Obj(Fresh, <<Ent("$exists",
                              IF ArgOf(e.val) = Str(<<"1">>) THEN Num(1, 0) ELSE Num(0, 0))>>)

C4_Witness ==
  /\ Returned
  /\ \E i \in Fields(given) :
       /\ C4_Case(given.ents[i].val)
       /\ ArgOf(given.ents[i].val) = Str(<<"1">>)
       /\ GetProp(GetProp(result, given.ents[i].key), "$exists") = Num(1, 0)

(* C5 *)

C5_ExpectedKeys(f) ==
  { f.ents[i].key : i \in { n \in Fields(f) : ~IsLogical(f.ents[n]) } }
    \cup { "$" \o f.ents[i].key : i \in { n \in Fields(f) : IsLogical(f.ents[n]) } }

\* a bare literal: a scalar, or an array under an ordinary field name
C5_BareLiteral(e) ==
  \/ e.val.kind \in {"string", "number", "boolean"}
  \/ e.val.kind = "array" /\ ~IsLogical(e)

\* C5 (as claimed): the keys of the compiled filter are the names of the
\* fields that are no logical combinator plus $and/$or for each combinator; a
\* bare literal appears unchanged under its field name; the empty filter
\* compiles to the empty mapping.
C5_Original ==
  Returned =>
    /\ KeySet(result) = C5_ExpectedKeys(given)
    /\ \A i \in Fields(given) :
         C5_BareLiteral(given.ents[i]) =>
           GetProp(result, given.ents[i].key) = given.ents[i].val
    /\ Fields(given) = {} => result = Obj(Fresh, <<>>)

(* C6 *)

\* C6 (as claimed): the call raises no error, whatever the filter holds.
C6_Original == given.kind = "object" => pc # "threw"

(* C7 *)

C7_Case(v) ==
  /\ IsClause(v)
  /\ \/ OpOf(v) \notin TableOperators
     \/ OpOf(v) \in StringOperators /\ ArgOf(v).kind # "string"

\* C7: a clause whose operator is not in the operator table, or whose
\* operator is string-only and whose operand is no string, compiles to the
\* operand itself under the field name, and raises no error.
C7_Theorem ==
  (pc # "call" /\ mutations = 0) =>
    \A i \in Fields(given) :
      LET e == given.ents[i]
      IN C7_Case(e.val) =>
           /\ Len(given.ents) = 1 => pc = "returned"
           /\ pc = "returned" =>
                /\ HasProp(result, e.key)
                /\ GetProp(result, e.key) = ArgOf(e.val)

\* a string-only operator on an array operand has compiled to the array
C7_Witness ==
  /\ Returned
  /\ \E i \in Fields(given) :
       /\ C7_Case(given.ents[i].val)
       /\ OpOf(given.ents[i].val) = "contains"
       /\ ArgOf(given.ents[i].val).kind = "array"
       /\ GetProp(result, given.ents[i].key) = ArgOf(given.ents[i].val)

(* C8 *)

C8_Expected(x) ==
  IF x.kind = "number"
  THEN (IF ~x.nan /\ x.frac = 0 THEN "int" ELSE "float")
  ELSE x.kind

\* C8 (as claimed): the type the driver computes for an operand is int for a
\* whole number, float for a fractional number, and the operand's own kind
\* otherwise (string for every string).
C8_Original ==
  pc # "call" =>
    \A i \in Fields(given) :
      IsClause(given.ents[i].val) =>
        fieldTypes[i] = C8_Expected(ArgOf(given.ents[i].val))

(* C9 *)

RECURSIVE StructuralRefs(_)
\* the objects of a filter that give it its structure: the filter itself, its
\* operator clauses, its and/or arrays and the sub-filters in them
StructuralRefs(f) ==
  IF f.kind # "object" THEN {}
  ELSE {f.ref}
         \cup { f.ents[i].val.ref : i \in { n \in Fields(f) : f.ents[n].val.kind = "object" } }
         \cup UNION { {f.ents[i].val.ref}
                        \cup UNION { StructuralRefs(f.ents[i].val.items[j]) :
                                       j \in 1..Len(f.ents[i].val.items) } :
                      i \in { n \in Fields(f) : IsLogical(f.ents[n]) } }

\* C9 (as claimed): the call leaves the caller's filter unchanged, the
\* result shares no array or object with it, and so no in-place modification
\* of the result changes the filter.
C9_Original ==
  pc # "call" =>
    /\ filter = given
    /\ pc = "returned" => SharedRefs(result) = {}

\* C9 (amended): the call leaves the caller's filter unchanged; the returned
\* mapping is a new object and none of the filter's structural objects (the
\* filter, its clauses, its and/or arrays, its sub-filters) occurs in the
\* result, but operands are passed by reference, each shared object being
\* the caller's operand as it is; modifying the parts the compiler built
\* leaves the filter unchanged.
C9_Theorem ==
  /\ (pc # "call" /\ ~touched) => filter = given
  /\ Returned =>
       /\ result.ref = Fresh
       /\ SharedRefs(result) \cap StructuralRefs(given) = {}
       /\ \A q \in Paths(result) :
            LET n == NodeAt(result, q)
            IN n.ref # Fresh => n = NodeAt(given, Tail(n.ref))

\* an object the compiler built was modified in a result that also holds an
\* operand of the caller, and the filter is as given
C9_Witness ==
  /\ pc = "returned"
  /\ mutations > 0
  /\ ~touched
  /\ SharedRefs(result) # {}
  /\ filter = given

(* C10 *)

\* an operand that denotes no integer: a boolean, null, undefined, or a
\* string without any decimal digit
C10_NotCoercible(x) ==
  \/ x.kind \in {"boolean", "null", "undefined"}
  \/ x.kind = "string" /\ \A i \in 1..Len(x.chars) : DigitVal(x.chars[i]) >= 10

\* C10 (as claimed): exists with an operand that cannot be coerced to an
\* integer raises no error and compiles to {$exists: d} with d an integer,
\* never NaN or undefined.
C10_Original ==
  (pc # "call" /\ mutations = 0) =>
    \A i \in Fields(given) :
      LET e == given.ents[i]
      IN (IsClause(e.val) /\ OpOf(e.val) = "exists" /\ C10_NotCoercible(ArgOf(e.val))) =>
           /\ Len(given.ents) = 1 => pc = "returned"
           /\ pc = "returned" =>
                LET d == GetProp(GetProp(result, e.key), "$exists")
                IN d.kind = "number" /\ ~d.nan /\ d.frac = 0

\* the facade has returned the page and its metadata
Paged == request # Undefined /\ reply.kind = "page"

\* the call gave no filter, or an empty one
NoFilter == request.options.filter \in { Undefined, O(<<>>) }

\* the facade called the method on the model of the store
Called(method) == \E i \in 1..Len(storeCalls) : storeCalls[i].method = method

\* the stages of the pipeline given to aggregate
Pipeline == storeCalls[Len(storeCalls)].args[1].items

HasMatchStage ==
  /\ Called("aggregate")
  /\ \E i \in 1..Len(Pipeline) : HasProp(Pipeline[i], "$match")

(* C11 *)
\* When list or listAggregation is called with no filter or an empty one,
\* the documents are counted with estimatedDocumentCount, countDocuments is
\* not called, and the pipeline of listAggregation has no $match stage;
\* countDocuments and the $match stage are used only when a filter is given.
C11_Original ==
  Paged =>
    IF NoFilter
    THEN /\ Called("estimatedDocumentCount")
         /\ ~Called("countDocuments")
         /\ ~HasMatchStage
    ELSE /\ Called("countDocuments")
         /\ ~Called("estimatedDocumentCount")
         /\ Called("aggregate") => HasMatchStage

\* removeEmptyObjectElements has returned
Cleaned == cleaned # Undefined

\* the values the claim calls empty: '', undefined, null, {} and []
IsEmptyElement(v) ==
  \/ v.kind \in {"undefined", "null"}
  \/ v.kind \in {"string", "object", "array"} /\ Size(v) = 0

\* the positions of the keys of a document whose values are not empty
NonEmptyKeys(doc) == { i \in 1..Size(doc) : ~IsEmptyElement(ValAt(doc, i)) }

(* C12 *)
\* removeEmptyElements(document) returns a new mapping with exactly the keys
\* of document whose values are not '', undefined, null, {} or []; false,
\* true, every number (0 too), and every non-empty string, object or array
\* is kept under its key with its value unchanged; document is not modified.
C12_Theorem ==
  Cleaned =>
    /\ cleaned.kind = "object"
    /\ cleaned.ref # document.ref
    /\ KeySet(cleaned) = { KeyAt(document, i) : i \in NonEmptyKeys(document) }
    /\ Len(cleaned.ents) = Cardinality(NonEmptyKeys(document))
    /\ \A i \in NonEmptyKeys(document) :
         GetProp(cleaned, KeyAt(document, i)) = ValAt(document, i)
    /\ document = given

\* a document with two keys is cleaned: one value is false or 0 and is
\* kept, the other is empty and is removed
C12_Witness ==
  /\ Cleaned
  /\ Size(document) = 2
  /\ \E i, j \in 1..2 :
       /\ ValAt(document, i) \in { Bool(FALSE), Num(0, 0) }
       /\ IsEmptyElement(ValAt(document, j))
       /\ KeySet(cleaned) = { KeyAt(document, i) }

\* a field whose clause has more than one key
IsMultiClause(e) == e.val.kind = "object" /\ Len(e.val.ents) > 1

\* the filter f with the clause of its i-th field cut down to its first
\* enumerated key
FirstKeyOnly(f, i) == [f EXCEPT !.ents[i].val.ents = <<@[1]>>]

(* C13 *)
\* When the clause of a field has more than one key, only the first
\* enumerated key is honored: the call gives exactly what it gives for the
\* same filter with that clause cut down to its first key and operand, so
\* the entry under the field is the first operator applied to the first
\* operand and the remaining keys contribute nothing.
C13_Theorem ==
  (pc # "call" /\ mutations = 0) =>
    \A i \in Fields(given) :
      IsMultiClause(given.ents[i]) =>
        result = toMongooseFilterExpression(FirstKeyOnly(given, i))

\* { age: { gt: 2, lt: 2.2 } } has been compiled to { age: { $gt: 2 } }
C13_Witness ==
  /\ Returned
  /\ given = Label(O(<<Ent("age", O(<<Ent("gt", Num(2, 0)), Ent("lt", Num(2, 2))>>))>>), Root)
  /\ result = O(<<Ent("age", O(<<Ent("$gt", Num(2, 0))>>))>>)

\* the page and the limit of the call, with their defaults
AskedPage == Default(request.options.page, Num(1, 0)).int
AskedLimit == Default(request.options.limit, GetProp(thisOptions, "limit")).int

\* what the store was asked to skip and to return at most: skip and limit
\* of find, $skip and $limit at the end of the pipeline of aggregate
QueryCall == storeCalls[Len(storeCalls)]
StoreSkip ==
  IF QueryCall.method = "find" THEN QueryCall.args[3].int
  ELSE GetProp(Pipeline[Len(Pipeline) - 1], "$skip").int
StoreLimit ==
  IF QueryCall.method = "find" THEN QueryCall.args[4].int
  ELSE GetProp(Pipeline[Len(Pipeline)], "$limit").int

\* skip, limit, totalCount, totalPages, the next page and currentPage of
\* the returned page
PageArithmetic ==
  /\ QueryCall.method \in {"find", "aggregate"}
  /\ StoreSkip = (AskedPage - 1) * AskedLimit
  /\ StoreLimit = AskedLimit
  /\ reply.totalCount >= 0
  /\ reply.totalPages * AskedLimit >= reply.totalCount
  /\ (reply.totalPages - 1) * AskedLimit < reply.totalCount
  /\ reply.hasNextPage <=> AskedPage < reply.totalPages
  /\ reply.hasNextPage <=> reply.nextPage = AskedPage + 1
  /\ ~reply.hasNextPage => reply.nextPage = 0
  /\ reply.currentPage = AskedPage

(* C14 *)
\* For page >= 1, limit >= 1 and totalCount >= 0: the store is asked to
\* skip (page - 1) * limit documents and to return at most limit;
\* totalPages = ceil(totalCount / limit); hasPrevPage is true exactly when
\* page > 1 and exactly when prevPage = page - 1 (otherwise prevPage = 0);
\* hasNextPage is true exactly when page < totalPages and exactly when
\* nextPage = page + 1 (otherwise nextPage = 0); currentPage = page.
C14_Original ==
  Paged =>
    /\ PageArithmetic
    /\ reply.hasPrevPage <=> AskedPage > 1
    /\ reply.hasPrevPage <=> reply.prevPage = AskedPage - 1
    /\ ~reply.hasPrevPage => reply.prevPage = 0

\* C14 as the code has it: hasPrevPage is true exactly when page > 1;
\* prevPage = page - 1 then and 0 otherwise, so on page 1 prevPage = 0 is
\* page - 1 although hasPrevPage is false; the rest as stated.
C14_Theorem ==
  Paged =>
    /\ PageArithmetic
    /\ reply.hasPrevPage <=> AskedPage > 1
    /\ reply.hasPrevPage => reply.prevPage = AskedPage - 1
    /\ ~reply.hasPrevPage => reply.prevPage = 0 /\ AskedPage = 1

\* page 2 of 5 documents, 2 a page: 2 are skipped, there are 3 pages, the
\* previous page is 1 and the next is 3
C14_Witness ==
  /\ Paged
  /\ AskedPage = 2 /\ AskedLimit = 2 /\ reply.totalCount = 5
  /\ StoreSkip = 2 /\ reply.totalPages = 3
  /\ reply.hasPrevPage /\ reply.prevPage = 1
  /\ reply.hasNextPage /\ reply.nextPage = 3

====
